---- MODULE Spec2Model ----
(***************************************************************************)
(* Model of the byteio crate (src/src/lib.rs): the ByteOrder conversions   *)
(* from_bytes / into_bytes / buffer for LittleEndian, BigEndian and the    *)
(* NetworkByteOrder alias, and the stream extensions read_as / write_as.   *)
(*                                                                         *)
(* A value of a numeric type is the record [ty, bits]; bits is the bit     *)
(* pattern as base-256 digits, most significant digit first (so the number *)
(* it denotes does not depend on the host).  TLC's integers are 32 bits    *)
(* wide, so 32- and 64-bit patterns are kept as digit sequences and are    *)
(* turned into one number only where that number is below 2^31.            *)
(* The host's byte order is a build parameter (cfg target_endian): it is   *)
(* chosen in Init and never changes.                                       *)
(***************************************************************************)
EXTENDS Integers, Sequences, FiniteSets, TLC

VARIABLES
    host,      \* target_endian of the build: "little" or "big"
    ty,        \* the numeric type T the session converts
    mode,      \* "encode": the caller holds a value; "decode": a buffer; "io": streams
    n0,        \* the value n handed to into_bytes or to write_as
    b0,        \* the buffer buf handed to from_bytes (decode mode)
    enc,       \* enc[P]: what P::into_bytes(n0) returned, NoBuf before the call
    dec,       \* dec[P]: what P::from_bytes returned, NoVal before the call
    data,      \* the bytes of the source
    pos,       \* the read cursor of the source
    sink,      \* the bytes the sink has received
    script,    \* how the sink answers its next write calls (empty: it takes all)
    rd,        \* the last read_as invocation on the source
    wr,        \* the last write_as invocation
    writes     \* number of write_as invocations so far

vars == <<host, ty, mode, n0, b0, enc, dec, data, pos, sink, script, rd, wr, writes>>

pureVars == <<host, ty, mode, n0, b0, enc, dec>>
ioVars == <<data, pos, sink, script, rd, wr, writes>>

(***************************************************************************)
(* Bounds of the model                                                     *)
(***************************************************************************)
MaxSmallByte == 1
MaxData == 9
MaxWrites == 1
MaxScript == 2
MaxChunk == 2

(***************************************************************************)
(* Types and policies                                                      *)
(***************************************************************************)
Unsigned == {"u8", "u16", "u32", "u64"}
Signed == {"i8", "i16", "i32", "i64"}
Floats == {"f32", "f64"}
Types == Unsigned \cup Signed \cup Floats

Policies == {"LittleEndian", "BigEndian", "NetworkByteOrder"}

Hosts == {"little", "big"}

Size(T) ==
    CASE T \in {"u8", "i8"} -> 1
      [] T \in {"u16", "i16"} -> 2
      [] T \in {"u32", "i32", "f32"} -> 4
      [] T \in {"u64", "i64", "f64"} -> 8

\* type aliases are resolved at compile time
Resolve(P) == IF P = "NetworkByteOrder" THEN "LittleEndian" ELSE P

NoBuf == <<>>
NoVal == [ty |-> "none", bits |-> <<>>]

Reverse(s) == [i \in 1..Len(s) |-> s[Len(s) + 1 - i]]

(***************************************************************************)
(* Host primitives used by the conversions                                 *)
(***************************************************************************)
\* mem::transmute::<[u8; N], uN>: the array is the integer's memory image
transmute_from_buf(T, buf) ==
    [ty |-> T, bits |-> IF host = "little" THEN Reverse(buf) ELSE buf]

\* mem::transmute::<uN, [u8; N]>: the integer's memory image as an array
transmute_to_buf(x) ==
    IF host = "little" THEN Reverse(x.bits) ELSE x.bits

\* mem::transmute between a float and the unsigned integer of its width
transmute_bits(T, x) == [ty |-> T, bits |-> x.bits]

\* variant: the swap leaves the bytes where they are
swap_bytes_kept(x) == x

swap_bytes(x) == [ty |-> x.ty, bits |-> Reverse(x.bits)]

\* variant: to_le taken for a no-op on every host
to_le_noop(x) == x

to_le(x) == IF host = "little" THEN x ELSE swap_bytes(x)

\* variant: to_be taken for a no-op on every host
to_be_noop(x) == x

to_be(x) == IF host = "big" THEN x ELSE swap_bytes(x)

\* $convert of the macro instantiation for policy P
convert(P, x) == IF Resolve(P) = "LittleEndian" THEN to_le(x) ELSE to_be(x)

UintOf(T) == IF T = "f32" THEN "u32" ELSE "u64"

(***************************************************************************)
(* trait ByteOrder<T>                                                      *)
(***************************************************************************)
buffer(P, T) == [i \in 1..Size(T) |-> 0]

\* variant: from_bytes without the $convert call
from_bytes_unconverted(P, T, buf) == transmute_from_buf(T, buf)

from_bytes(P, T, buf) ==
    IF T \in Floats
    THEN transmute_bits(T, convert(P, transmute_from_buf(UintOf(T), buf)))
    ELSE convert(P, transmute_from_buf(T, buf))

into_bytes(P, T, n) ==
    IF T \in Floats
    THEN transmute_to_buf(convert(P, transmute_bits(UintOf(T), n)))
    ELSE transmute_to_buf(convert(P, n))

(***************************************************************************)
(* Inputs                                                                  *)
(***************************************************************************)
ByteVals == (0..MaxSmallByte) \cup ((255 - MaxSmallByte)..255)

\* bit patterns worth naming: the examples of the documentation, patterns
\* with pairwise distinct bytes, and the special floating point values
Special(T) ==
    CASE T \in {"u8", "i8"} -> {<<128>>}
      [] T \in {"u16", "i16"} -> {<<1, 2>>, <<2, 1>>, <<128, 0>>}
      [] T \in {"u32", "i32"} -> {<<1, 2, 3, 4>>, <<128, 0, 0, 0>>}
      [] T = "f32" -> {<<127, 192, 0, 0>>, <<255, 192, 0, 1>>, <<127, 128, 0, 1>>,
                       <<128, 0, 0, 0>>, <<0, 0, 0, 0>>,
                       <<127, 128, 0, 0>>, <<255, 128, 0, 0>>, <<63, 128, 0, 0>>}
      [] T \in {"u64", "i64"} -> {<<1, 2, 3, 4, 5, 6, 7, 8>>,
                                  <<128, 0, 0, 0, 0, 0, 0, 0>>}
      [] T = "f64" -> {<<127, 248, 0, 0, 0, 0, 0, 0>>, <<255, 248, 0, 0, 0, 0, 0, 1>>,
                       <<127, 240, 0, 0, 0, 0, 0, 1>>,
                       <<128, 0, 0, 0, 0, 0, 0, 0>>, <<0, 0, 0, 0, 0, 0, 0, 0>>,
                       <<127, 240, 0, 0, 0, 0, 0, 0>>, <<255, 240, 0, 0, 0, 0, 0, 0>>,
                       <<63, 240, 0, 0, 0, 0, 0, 0>>}

\* all byte strings over ByteVals for widths up to 4; for width 8 the strings
\* with one byte, or one prefix, set apart from a uniform background
Patterns(w) ==
    IF w <= 4
    THEN [1..w -> ByteVals]
    ELSE {[i \in 1..w |-> IF i = k THEN x ELSE y] : k \in 1..w, x \in ByteVals, y \in ByteVals}
         \cup {[i \in 1..w |-> IF i <= k THEN x ELSE y] : k \in 1..w, x \in ByteVals, y \in ByteVals}

Bytes(T) == Patterns(Size(T)) \cup Special(T)

Values(T) == {[ty |-> T, bits |-> s] : s \in Bytes(T)}

(***************************************************************************)
(* Conversions called directly                                             *)
(***************************************************************************)
RdNone ==
    [src |-> "none", pol |-> "none", before |-> 0, resp |-> -3, calls |-> 0, conv |-> 0,
     ok |-> FALSE, err |-> "none", val |-> NoVal]

WrNone ==
    [pol |-> "none", before |-> 0, log |-> <<>>, ok |-> FALSE, err |-> "none"]

InitIo ==
    /\ data = <<>>
    /\ pos = 0
    /\ sink = <<>>
    /\ script = <<>>
    /\ rd = RdNone
    /\ wr = WrNone
    /\ writes = 0

InitPure ==
    /\ host \in Hosts
    /\ ty \in Types
    /\ mode \in {"encode", "decode"}
    /\ IF mode = "encode"
       THEN n0 \in Values(ty) /\ b0 = NoBuf
       ELSE n0 = NoVal /\ b0 \in Bytes(ty)
    /\ enc = [P \in Policies |-> NoBuf]
    /\ dec = [P \in Policies |-> NoVal]
    /\ InitIo

\* let buf = P::into_bytes(n0)
IntoBytes(P) ==
    /\ mode = "encode"
    /\ enc[P] = NoBuf
    /\ enc' = [enc EXCEPT ![P] = into_bytes(P, ty, n0)]
    /\ UNCHANGED <<host, ty, mode, n0, b0, dec>>
    /\ UNCHANGED ioVars

\* let n = P::from_bytes(buf), buf being b0 or the result of P::into_bytes(n0)
FromBytes(P) ==
    /\ dec[P] = NoVal
    /\ IF mode = "encode" THEN enc[P] # NoBuf ELSE mode = "decode"
    /\ dec' = [dec EXCEPT ![P] = from_bytes(P, ty, IF mode = "encode" THEN enc[P] ELSE b0)]
    /\ UNCHANGED <<host, ty, mode, n0, b0, enc>>
    /\ UNCHANGED ioVars

NextPure ==
    \/ \E P \in Policies : IntoBytes(P)
    \/ \E P \in Policies : FromBytes(P)

SpecPure == InitPure /\ [][NextPure]_vars

(***************************************************************************)
(* Numbers denoted by bit patterns and by buffers                          *)
(***************************************************************************)
\* the coefficient of 256^i in x
Digit(x, i) == x.bits[Len(x.bits) - i]

\* the pattern denotes a number below 2^31
FitsInt(s) ==
    /\ \A i \in 1..(Len(s) - 4) : s[i] = 0
    /\ Len(s) >= 4 => s[Len(s) - 3] < 128

RECURSIVE SumBE(_)
\* sum of b[i] * 256^(n-1-i), i = 0..n-1
SumBE(b) == IF b = <<>> THEN 0 ELSE SumBE(SubSeq(b, 1, Len(b) - 1)) * 256 + b[Len(b)]

RECURSIVE SumLE(_)
\* sum of b[i] * 256^i, i = 0..n-1
SumLE(b) == IF b = <<>> THEN 0 ELSE b[1] + 256 * SumLE(Tail(b))

NumVal(x) == SumBE(x.bits)

(***************************************************************************)
(* Properties of the conversions                                           *)
(***************************************************************************)
\* C1: round trip. Whatever the type, the policy and the host, from_bytes
\* applied to the buffer into_bytes returned for n0 gives back n0: the same
\* type and the same bit pattern (NaN payloads, signed zeros, infinities).
RoundTrip ==
    mode = "encode" =>
        \A P \in Policies : dec[P] # NoVal => dec[P] = n0

\* a quiet NaN with a payload went through the swapping path and came back
RoundTripWitness ==
    /\ mode = "encode" /\ host = "big" /\ ty = "f32"
    /\ n0.bits = <<255, 192, 0, 1>>
    /\ dec["LittleEndian"] = n0
    /\ enc["LittleEndian"] = <<1, 0, 192, 255>>

\* C2: from_bytes decodes positionally. For an unsigned type of width n and
\* a buffer b0, LittleEndian gives the number with digit b0[i] at 256^i and
\* BigEndian the number with digit b0[i] at 256^(n-1-i) (compared as numbers
\* where they are below 2^31); [1, 2] as u16 is 513 resp. 258, on any host.
DecodesPositionally ==
    (mode = "decode" /\ ty \in Unsigned) =>
        /\ dec["LittleEndian"] # NoVal =>
              /\ dec["LittleEndian"].ty = ty
              /\ \A i \in 0..(Size(ty) - 1) : Digit(dec["LittleEndian"], i) = b0[i + 1]
              /\ FitsInt(dec["LittleEndian"].bits) =>
                     NumVal(dec["LittleEndian"]) = SumLE(b0)
              /\ (ty = "u16" /\ b0 = <<1, 2>>) => NumVal(dec["LittleEndian"]) = 513
        /\ dec["BigEndian"] # NoVal =>
              /\ dec["BigEndian"].ty = ty
              /\ \A i \in 0..(Size(ty) - 1) :
                     Digit(dec["BigEndian"], Size(ty) - 1 - i) = b0[i + 1]
              /\ FitsInt(dec["BigEndian"].bits) =>
                     NumVal(dec["BigEndian"]) = SumBE(b0)
              /\ (ty = "u16" /\ b0 = <<1, 2>>) => NumVal(dec["BigEndian"]) = 258

\* the documented example was decoded with both policies on a big-endian host
DecodesPositionallyWitness ==
    /\ mode = "decode" /\ host = "big" /\ ty = "u16" /\ b0 = <<1, 2>>
    /\ dec["LittleEndian"] # NoVal
    /\ dec["BigEndian"] # NoVal

\* C3: into_bytes encodes positionally. For an integer type of width n,
\* BigEndian lists the digits of n0 from 256^(n-1) down to 256^0 and
\* LittleEndian from 256^0 up; the u32 0x01020304 gives [1, 2, 3, 4] resp.
\* [4, 3, 2, 1], on any host.
EncodesPositionally ==
    (mode = "encode" /\ ty \in Unsigned \cup Signed) =>
        /\ enc["BigEndian"] # NoBuf =>
              /\ Len(enc["BigEndian"]) = Size(ty)
              /\ \A i \in 0..(Size(ty) - 1) :
                     enc["BigEndian"][i + 1] = Digit(n0, Size(ty) - 1 - i)
              /\ (ty = "u32" /\ FitsInt(n0.bits) /\ NumVal(n0) = 16909060) =>
                     enc["BigEndian"] = <<1, 2, 3, 4>>
        /\ enc["LittleEndian"] # NoBuf =>
              /\ Len(enc["LittleEndian"]) = Size(ty)
              /\ \A i \in 0..(Size(ty) - 1) : enc["LittleEndian"][i + 1] = Digit(n0, i)
              /\ (ty = "u32" /\ FitsInt(n0.bits) /\ NumVal(n0) = 16909060) =>
                     enc["LittleEndian"] = <<4, 3, 2, 1>>

\* 0x01020304 was encoded with both policies on a little-endian host
EncodesPositionallyWitness ==
    /\ mode = "encode" /\ host = "little" /\ ty = "u32"
    /\ n0.bits = <<1, 2, 3, 4>>
    /\ enc["BigEndian"] # NoBuf
    /\ enc["LittleEndian"] # NoBuf

\* C4: cross-policy reversal. Once n0 has been encoded with both policies,
\* the LittleEndian buffer is the BigEndian buffer reversed, and for a
\* multi-byte type the two differ whenever the bytes of n0 are not a
\* palindrome.
CrossPolicyReversal ==
    (enc["LittleEndian"] # NoBuf /\ enc["BigEndian"] # NoBuf) =>
        /\ enc["LittleEndian"] = Reverse(enc["BigEndian"])
        /\ (Size(ty) > 1 /\ n0.bits # Reverse(n0.bits)) =>
               enc["LittleEndian"] # enc["BigEndian"]

\* a 64-bit float whose bytes are no palindrome was encoded with both policies
CrossPolicyReversalWitness ==
    /\ ty = "f64" /\ n0.bits = <<127, 240, 0, 0, 0, 0, 0, 1>>
    /\ enc["LittleEndian"] # NoBuf
    /\ enc["BigEndian"] # NoBuf
    /\ enc["LittleEndian"] # enc["BigEndian"]

\* C7: NetworkByteOrder is BigEndian. Encoding n0 with NetworkByteOrder
\* gives the buffer BigEndian gives, and decoding b0 with NetworkByteOrder
\* gives the value BigEndian gives.
NetworkIsBigEndian ==
    /\ (enc["NetworkByteOrder"] # NoBuf /\ enc["BigEndian"] # NoBuf) =>
           enc["NetworkByteOrder"] = enc["BigEndian"]
    /\ (mode = "decode" /\ dec["NetworkByteOrder"] # NoVal /\ dec["BigEndian"] # NoVal) =>
           dec["NetworkByteOrder"] = dec["BigEndian"]

(***************************************************************************)
(* Sources and sinks (std::io::Read / std::io::Write implementors)         *)
(***************************************************************************)
Min(a, b) == IF a <= b THEN a ELSE b

\* Outcome of one read or write call: k >= 0 is Ok(k), below zero an Err
Interrupted == -1
OtherError == -2

ErrName(resp) == IF resp = Interrupted THEN "Interrupted" ELSE "Other"

\* variant: a slice that hands out nothing unless it can fill the buffer
SliceReadAllOrNothing(len) == IF Len(data) - pos >= len THEN len ELSE 0

\* <&[u8] as io::Read>::read: copies min(buf.len(), self.len()) bytes
SliceRead(len) == Min(len, Len(data) - pos)

\* any io::Read: an error, or some count within the buffer and the data left
ReaderResponses(len) == {OtherError, Interrupted} \cup (0..Min(len, Len(data) - pos))

\* any io::Write: an error, or the number of bytes it is ready to accept
WriterResponses == {OtherError, Interrupted} \cup (0..MaxChunk)

Scripts == UNION {[1..l -> WriterResponses] : l \in 0..MaxScript}

\* variant: a single write call, a short count reported as a failure
write_once(buf, scr, log) ==
    IF buf = <<>> THEN [log |-> log, ok |-> TRUE, err |-> "none"]
    ELSE LET r == IF scr = <<>> THEN Len(buf) ELSE Min(Head(scr), Len(buf))
         IN  IF r < 0 THEN [log |-> Append(log, r), ok |-> FALSE, err |-> ErrName(r)]
             ELSE IF r < Len(buf)
                  THEN [log |-> Append(log, r), ok |-> FALSE, err |-> "WriteZero"]
                  ELSE [log |-> Append(log, r), ok |-> TRUE, err |-> "none"]

RECURSIVE write_all(_, _, _)
\* io::Write::write_all(buf) on a sink that answers its first calls as the
\* script says and then accepts whatever it is given (Vec<u8>: empty script);
\* log lists the outcome of every write call made
write_all(buf, scr, log) ==
    IF buf = <<>> THEN [log |-> log, ok |-> TRUE, err |-> "none"]
    ELSE LET r == IF scr = <<>> THEN Len(buf) ELSE Min(Head(scr), Len(buf))
             rest == IF scr = <<>> THEN <<>> ELSE Tail(scr)
         IN  CASE r = 0 -> [log |-> Append(log, r), ok |-> FALSE, err |-> "WriteZero"]
               [] r > 0 -> write_all(SubSeq(buf, r + 1, Len(buf)), rest, Append(log, r))
               [] r = Interrupted -> write_all(buf, rest, Append(log, r))
               [] OTHER -> [log |-> Append(log, r), ok |-> FALSE, err |-> ErrName(r)]

RECURSIVE Accepted(_)
\* the number of bytes the sink took over the write calls of log
Accepted(log) ==
    IF log = <<>> THEN 0
    ELSE (IF Head(log) > 0 THEN Head(log) ELSE 0) + Accepted(Tail(log))

(***************************************************************************)
(* ReadBytesExt::read_as and WriteBytesExt::write_as                       *)
(***************************************************************************)
\* variant: try! lets an interrupted read through
ReadFailedHard(resp) == resp < Interrupted

\* try!(self.read(..)) returns early
ReadFailed(resp) == resp < 0

\* variant: only an empty read counts as short
ShortReadEmpty(resp, buf) == resp = 0

ShortRead(resp, buf) == resp # Len(buf)

\* variant: the bytes read never reach buf
FilledNothing(buf, resp) == buf

\* buf after self.read(buf.as_mut()) delivered resp bytes
Filled(buf, resp) ==
    [i \in 1..Len(buf) |-> IF i <= resp THEN data[pos + i] ELSE buf[i]]

\* the invocation record of read_as::<P>() for type T when self.read answers resp
read_as(src, P, T, resp) ==
    LET buf == buffer(P, T)
        call == [src |-> src, pol |-> P, before |-> pos, resp |-> resp, calls |-> 1]
    IN  IF ReadFailed(resp)
        THEN call @@ [conv |-> 0, ok |-> FALSE, err |-> ErrName(resp), val |-> NoVal]
        ELSE IF ShortRead(resp, buf)
             THEN call @@ [conv |-> 0, ok |-> FALSE, err |-> "could not read all bytes",
                           val |-> NoVal]
             ELSE call @@ [conv |-> 1, ok |-> TRUE, err |-> "none",
                           val |-> from_bytes(P, T, Filled(buf, resp))]

\* the invocation record of write_as::<P>(n) on a sink answering as scr says
write_as(P, T, n, scr) ==
    [pol |-> P, before |-> Len(sink)] @@ write_all(into_bytes(P, T, n), scr, <<>>)

(***************************************************************************)
(* Stream sessions                                                         *)
(***************************************************************************)
Tapes ==
    {[i \in 1..MaxData |-> i],
     [i \in 1..MaxData |-> 256 - i],
     [i \in 1..MaxData |-> (i * 37 + 91) % 256]}

Sources == {SubSeq(t, 1, l) : t \in Tapes, l \in 0..MaxData}

\* the values written in stream sessions
WriteValues(T) ==
    {[ty |-> T, bits |-> s] : s \in Special(T) \cup {[i \in 1..Size(T) |-> x] : x \in ByteVals}}

InitConv ==
    /\ host \in Hosts
    /\ ty \in Types
    /\ mode = "io"
    /\ b0 = NoBuf
    /\ enc = [P \in Policies |-> NoBuf]
    /\ dec = [P \in Policies |-> NoVal]

\* a source holding some bytes, read with read_as
InitRead ==
    /\ InitConv
    /\ n0 = NoVal
    /\ data \in Sources
    /\ pos = 0
    /\ sink = <<>>
    /\ script = <<>>
    /\ rd = RdNone
    /\ wr = WrNone
    /\ writes = 0

\* a value n0 and an empty sink that may accept less than offered, or fail
InitWrite ==
    /\ InitConv
    /\ n0 \in WriteValues(ty)
    /\ data = <<>>
    /\ pos = 0
    /\ sink = <<>>
    /\ script \in Scripts
    /\ rd = RdNone
    /\ wr = WrNone
    /\ writes = 0

\* a value n0 and an empty Vec<u8>
InitRoundTrip ==
    /\ InitConv
    /\ n0 \in WriteValues(ty)
    /\ InitIo

\* (&data[pos..]).read_as::<P>()
ReadAsSlice(P) ==
    /\ mode = "io"
    /\ LET resp == SliceRead(Size(ty))
       IN  /\ rd' = read_as("slice", P, ty, resp)
           /\ pos' = pos + resp
    /\ UNCHANGED <<data, sink, script, wr, writes>>
    /\ UNCHANGED pureVars

\* reader.read_as::<P>() on a reader over the same bytes that may deliver
\* less than asked for, or fail
ReadAsReader(P, resp) ==
    /\ mode = "io"
    /\ resp \in ReaderResponses(Size(ty))
    /\ rd' = read_as("reader", P, ty, resp)
    /\ pos' = pos + (IF resp > 0 THEN resp ELSE 0)
    /\ UNCHANGED <<data, sink, script, wr, writes>>
    /\ UNCHANGED pureVars

\* sink.write_as::<P>(n0)
WriteAs(P) ==
    /\ mode = "io"
    /\ writes < MaxWrites
    /\ wr' = write_as(P, ty, n0, script)
    /\ sink' = sink \o SubSeq(into_bytes(P, ty, n0), 1, Accepted(wr'.log))
    /\ script' = SubSeq(script, Len(wr'.log) + 1, Len(script))
    /\ writes' = writes + 1
    /\ UNCHANGED <<data, pos, rd>>
    /\ UNCHANGED pureVars

\* let data = &sink[..]: a fresh slice over the bytes the sink received
OpenSlice ==
    /\ mode = "io"
    /\ writes > 0
    /\ data # sink \/ pos # 0
    /\ data' = sink
    /\ pos' = 0
    /\ rd' = RdNone
    /\ UNCHANGED <<sink, script, wr, writes>>
    /\ UNCHANGED pureVars

NextRead ==
    \/ \E P \in Policies : ReadAsSlice(P)
    \/ \E P \in Policies : \E resp \in ReaderResponses(Size(ty)) : ReadAsReader(P, resp)

NextWrite == \E P \in Policies : WriteAs(P)

NextRoundTrip ==
    \/ \E P \in Policies : WriteAs(P)
    \/ OpenSlice
    \/ \E P \in Policies : ReadAsSlice(P)

SpecRead == InitRead /\ [][NextRead]_vars

SpecWrite == InitWrite /\ [][NextWrite]_vars

SpecRoundTrip == InitRoundTrip /\ [][NextRoundTrip]_vars

(***************************************************************************)
(* Properties of read_as and write_as                                      *)
(***************************************************************************)
\* C5: stream round trip. After write_as::<P>(n0) on the empty Vec<u8>, the
\* first read_as::<P>() on a slice over exactly the bytes the Vec received
\* returns Ok(n0): the same type and bit pattern.
StreamRoundTrip ==
    (/\ wr.pol # "none" /\ wr.before = 0
     /\ data = sink
     /\ rd.src = "slice" /\ rd.before = 0 /\ rd.pol = wr.pol) =>
        (rd.ok /\ rd.val = n0)

\* a signalling NaN was written and read back big-endian on a little-endian host
StreamRoundTripWitness ==
    /\ host = "little" /\ ty = "f64"
    /\ n0.bits = <<127, 240, 0, 0, 0, 0, 0, 1>>
    /\ wr.pol = "BigEndian" /\ wr.ok /\ wr.before = 0
    /\ data = sink /\ sink = <<127, 240, 0, 0, 0, 0, 0, 1>>
    /\ rd.src = "slice" /\ rd.before = 0 /\ rd.pol = "BigEndian"
    /\ rd.ok /\ rd.val = n0

\* C6: short read. Every read_as invocation makes one read call; when that
\* call reports a count other than sizeof(T), zero included, read_as returns
\* the "could not read all bytes" error and no value, also when the source
\* still holds the bytes that were missing.
ShortReadFails ==
    rd.src # "none" =>
        /\ rd.calls = 1
        /\ (rd.resp >= 0 /\ rd.resp # Size(ty)) =>
              /\ ~rd.ok
              /\ rd.err = "could not read all bytes"
              /\ rd.val = NoVal
              /\ rd.conv = 0

\* a reader delivered part of a value, held the rest, and read_as failed
ShortReadFailsWitness ==
    /\ rd.src = "reader"
    /\ rd.resp > 0 /\ rd.resp < Size(ty)
    /\ Len(data) - rd.before >= Size(ty)
    /\ pos = rd.before + rd.resp
    /\ ~rd.ok /\ rd.err = "could not read all bytes"

\* C9: no partial values, immediate propagation. read_as returns Ok only
\* after its single read call gave exactly sizeof(T) bytes, and then the value
\* is a whole T; when the read call fails, read_as returns that very error
\* with no from_bytes call, no second read call and no value.
ReadErrorsPropagate ==
    rd.src # "none" =>
        /\ rd.ok => (rd.calls = 1 /\ rd.resp = Size(ty) /\ rd.conv = 1
                     /\ rd.val.ty = ty /\ Len(rd.val.bits) = Size(ty))
        /\ ~rd.ok => rd.val = NoVal
        /\ rd.resp < 0 =>
              /\ ~rd.ok
              /\ rd.err = ErrName(rd.resp)
              /\ rd.conv = 0
              /\ rd.calls = 1
              /\ pos = rd.before

\* a reader that held a whole value was interrupted and read_as gave the error
ReadErrorsPropagateWitness ==
    /\ rd.src = "reader" /\ rd.resp = Interrupted
    /\ Len(data) - pos >= Size(ty)
    /\ ~rd.ok /\ rd.err = "Interrupted" /\ rd.val = NoVal

\* C10: cursor effect on a byte slice. A read_as call for a type of width n
\* moves the cursor by min(n, bytes left) and changes nothing else; with n
\* bytes left it returns the value encoded at the cursor, with fewer it
\* returns an error and the cursor ends at the end of the data (trailing
\* bytes are consumed), and at the end of the data it fails and stays there.
SliceCursor ==
    [][rd'.src = "slice" =>
          LET left == Len(data) - pos
          IN  /\ rd'.before = pos
              /\ pos' = pos + Min(Size(ty), left)
              /\ data' = data /\ sink' = sink /\ wr' = wr
              /\ left >= Size(ty) =>
                    /\ rd'.ok
                    /\ into_bytes(rd'.pol, ty, rd'.val) = SubSeq(data, pos + 1, pos + Size(ty))
              /\ left < Size(ty) => (~rd'.ok /\ rd'.val = NoVal /\ pos' = Len(data))
    ]_vars

\* after one u32 had been read from 9 bytes, and then a call had failed and
\* taken the trailing byte, a further call failed at the end of the data
SliceCursorWitness ==
    /\ ty = "u32" /\ Len(data) = 9
    /\ rd.src = "slice" /\ rd.before = 9 /\ pos = 9
    /\ ~rd.ok

\* C8 as stated: once a write call has accepted fewer than sizeof(T) bytes,
\* write_as makes no further write call and returns an error.
WriteNeverRetries ==
    wr.pol # "none" =>
        \A i \in 1..Len(wr.log) :
            (wr.log[i] >= 0 /\ wr.log[i] < Size(ty)) => (i = Len(wr.log) /\ ~wr.ok)

\* C8 as the code has it: write_as hands the buffer of into_bytes to
\* write_all, which calls write again for the bytes still outstanding after a
\* call that accepted some but not all of them (and after an interrupted
\* call); write_as returns Ok exactly when all sizeof(T) bytes were accepted,
\* and an error only after a call that accepted nothing or failed otherwise.
WriteRetriesUntilDone ==
    wr.pol # "none" =>
        /\ Len(wr.log) >= 1
        /\ \A i \in 1..(Len(wr.log) - 1) : wr.log[i] > 0 \/ wr.log[i] = Interrupted
        /\ wr.ok <=> Accepted(wr.log) = Size(ty)
        /\ ~wr.ok <=> wr.log[Len(wr.log)] \in {0, OtherError}
        /\ wr.log[Len(wr.log)] = 0 => wr.err = "WriteZero"
        /\ wr.log[Len(wr.log)] = OtherError => wr.err = "Other"
        /\ Len(sink) = wr.before + Accepted(wr.log)
        /\ SubSeq(sink, wr.before + 1, Len(sink))
              = SubSeq(into_bytes(wr.pol, ty, n0), 1, Accepted(wr.log))

\* a sink took one byte of a u32, then two, then the last, and write_as succeeded
WriteRetriesUntilDoneWitness ==
    /\ ty = "u32" /\ n0.bits = <<1, 2, 3, 4>>
    /\ wr.pol = "BigEndian" /\ wr.log = <<1, 2, 1>> /\ wr.ok
    /\ sink = <<1, 2, 3, 4>>

====
